---- MODULE Spec2Model ----
(***************************************************************************)
(* A model of tree.js: the tree(dirPath, options, maxDepth) entry point    *)
(* and its recursive buildTree walker, run against a small filesystem.     *)
(*                                                                         *)
(* Strings are sequences of tokens.  A token is a glyph of the symbol      *)
(* table (four characters), an entry name, the "/" suffix or separator,    *)
(* or the newline "\n"; string concatenation is \o.  The box-drawing       *)
(* characters of the Unicode symbol table are written by code point:       *)
(* {2502} is the vertical bar, {251C} the tee, {2514} the corner and       *)
(* {2500} the horizontal bar.                                              *)
(***************************************************************************)
EXTENDS Integers, Sequences, FiniteSets, TLC

VARIABLES
    fs,             \* the directory hierarchy the program reads
    dirPath,        \* tree(): first argument
    showFiles,      \* options.showFiles
    useAscii,       \* options.useAscii
    maxDepth,       \* tree(): third argument, -1 = unlimited
    pc,             \* position in tree(): "start", "walk", "output", "done", "exited"
    stack,          \* the active buildTree calls, innermost last
    treeStructure,  \* tree(): the value buildTree(absolutePath) returned
    stdout,         \* what console.log has written
    stderr,         \* what console.error has written, one record per call
    exitCode,       \* -1 while running, 1 after process.exit(1), 0 on return
    returned,       \* every finished buildTree call with the value it returned
    entry,          \* "api": tree() is called; "cli": main() runs on argv
    argv,           \* process.argv.slice(2)
    outputFile,     \* options.outputFile: a path, or NoFile for null
    outText,        \* the content of the file at outputFile, when it exists
    run,            \* the number of the current run on this filesystem
    existedBefore   \* whether the output file existed when this run began

vars == <<fs, dirPath, showFiles, useAscii, maxDepth, pc, stack, treeStructure,
          stdout, stderr, exitCode, returned,
          entry, argv, outputFile, outText, run, existedBefore>>

\* what one run never changes once tree() has its arguments
invocation == <<entry, argv, outputFile, run, existedBefore>>

(***************************************************************************)
(* Bounds of the model.                                                    *)
(***************************************************************************)
\* maxDepth is drawn from -1 .. MaxDepthOpt
MaxDepthOpt == 3
\* nesting depth of the generated chain directory
ChainLen == 4
\* how many times in a row the program is run on one filesystem
MaxRuns == 2

(***************************************************************************)
(* The filesystem.  A node is a record; a directory holds its entries in   *)
(* the order readdir enumerates them.  kind "broken" is an entry readdir   *)
(* lists but stat fails on (a dangling link, an entry removed after its    *)
(* directory was enumerated); readable = FALSE is a directory whose        *)
(* enumeration fails (permission denied).                                  *)
(***************************************************************************)
Dir(name, items) ==
    [name |-> name, kind |-> "dir", readable |-> TRUE, items |-> items]

File(name) ==
    [name |-> name, kind |-> "file", readable |-> TRUE, items |-> <<>>]

Broken(name) ==
    [name |-> name, kind |-> "broken", readable |-> FALSE, items |-> <<>>]

Missing ==
    [name |-> "", kind |-> "missing", readable |-> FALSE, items |-> <<>>]

Tail2(s) == SubSeq(s, 2, Len(s))

RECURSIVE NodeBelow(_, _)
\* the node reached from `node` by the relative path `rel`
NodeBelow(node, rel) ==
    IF rel = <<>> THEN node
    ELSE IF node.kind # "dir" THEN Missing
    ELSE LET hit == {i \in 1..Len(node.items) : node.items[i].name = rel[1]}
         IN IF hit = {} THEN Missing
            ELSE NodeBelow(node.items[CHOOSE i \in hit : TRUE], Tail2(rel))

\* the node at an absolute path; the hierarchy's root is the only entry of "/"
NodeAt(p) ==
    IF p = <<>> \/ p[1] # fs.name THEN Missing ELSE NodeBelow(fs, Tail2(p))

\* path.join(currentPath, item)
join(currentPath, item) == Append(currentPath, item)

\* fs.existsSync(p): false for a missing path and for a dangling link
existsSync(p) == NodeAt(p).kind \in {"dir", "file"}

\* fs.statSync(p) throws
statThrows(p) == NodeAt(p).kind \notin {"dir", "file"}

\* fs.statSync(p).isDirectory(), when statSync does not throw
isDirectory(p) == NodeAt(p).kind = "dir"

\* fs.readdirSync(p) throws
readdirThrows(p) == NodeAt(p).kind # "dir" \/ ~NodeAt(p).readable

\* fs.readdirSync(p): the entry names in enumeration order
readdirSync(p) ==
    LET n == NodeAt(p) IN [i \in 1..Len(n.items) |-> n.items[i].name]

\* path.dirname(p) and path.basename(p)
dirname(p) == SubSeq(p, 1, Len(p) - 1)
basename(p) == p[Len(p)]

RECURSIVE WithoutEntry(_, _)
\* the hierarchy with the entry at `rel` removed from its directory
WithoutEntry(node, rel) ==
    IF rel = <<>> \/ node.kind # "dir" THEN node
    ELSE IF Len(rel) = 1
    THEN [node EXCEPT !.items = SelectSeq(node.items, LAMBDA e : e.name # rel[1])]
    ELSE [node EXCEPT !.items =
            [i \in 1..Len(node.items) |->
                IF node.items[i].name = rel[1]
                THEN WithoutEntry(node.items[i], Tail2(rel))
                ELSE node.items[i]]]

RECURSIVE WithEntry(_, _, _)
\* the hierarchy with the entry `added` put into the directory at `rel`;
\* a new entry is enumerated after the ones the directory already has
WithEntry(node, rel, added) ==
    IF node.kind # "dir" THEN node
    ELSE IF rel = <<>>
    THEN [node EXCEPT !.items = Append(node.items, added)]
    ELSE [node EXCEPT !.items =
            [i \in 1..Len(node.items) |->
                IF node.items[i].name = rel[1]
                THEN WithEntry(node.items[i], Tail2(rel), added)
                ELSE node.items[i]]]

(***************************************************************************)
(* The hierarchies the walk is run on.                                     *)
(***************************************************************************)
MyApp ==
    Dir("my-app",
        << Dir("src", << Dir("components", <<File("Header.js"), File("Footer.js")>>),
                         Dir("utils", <<>>),
                         File("index.js") >>),
           Dir("public", <<>>),
           File("package.json"),
           File("README.md") >>)

SortDir ==
    Dir("sortdir", << File("b.txt"), Dir("A", <<>>), File("a.txt"), Dir("B", <<>>) >>)

\* two names that are canonically equivalent Unicode strings: e-acute
\* precomposed, and e followed by the combining acute accent
TieDir ==
    Dir("ties", << File("caf{00E9}"), File("caf{0065,0301}"), Dir("beta", <<>>) >>)

Three ==
    Dir("proj",
        << Dir("gamma", <<File("three.txt")>>),
           Dir("alpha", <<File("one.txt")>>),
           Dir("beta", << Dir("inner", <<File("two.txt")>>) >>) >>)

RECURSIVE Chain(_)
Chain(n) ==
    IF n = 0 THEN Dir("sub", <<File("f.txt")>>)
    ELSE Dir("sub", <<File("f.txt"), Chain(n - 1)>>)

BaseTrees == {MyApp, SortDir, TieDir, Three, Chain(ChainLen)}

RECURSIVE PathsBelow(_)
\* the relative paths of all nodes of a hierarchy, <<>> for its root
PathsBelow(node) ==
    {<<>>} \cup
    UNION {{<<node.items[i].name>> \o q : q \in PathsBelow(node.items[i])} :
           i \in 1..Len(node.items)}

RECURSIVE WithFault(_, _, _)
\* the hierarchy with the node at `rel` made unreadable or broken
WithFault(node, rel, fault) ==
    IF rel = <<>>
    THEN IF fault = "unreadable" THEN [node EXCEPT !.readable = FALSE]
         ELSE Broken(node.name)
    ELSE [node EXCEPT !.items =
            [i \in 1..Len(node.items) |->
                IF node.items[i].name = rel[1]
                THEN WithFault(node.items[i], Tail2(rel), fault)
                ELSE node.items[i]]]

RECURSIVE Reversed(_)
\* the same hierarchy enumerated in the opposite order
Reversed(node) ==
    [node EXCEPT !.items =
        [i \in 1..Len(node.items) |-> Reversed(node.items[Len(node.items) + 1 - i])]]

\* the faults a hierarchy can carry: none, or one node unreadable or broken
Faults(base) ==
    {[rel |-> <<>>, fault |-> "none"]} \cup
    {[rel |-> r, fault |-> "broken"] : r \in PathsBelow(base)} \cup
    {[rel |-> r, fault |-> "unreadable"] :
        r \in {q \in PathsBelow(base) : NodeBelow(base, q).kind = "dir"}}

Faulted(base, f) ==
    IF f.fault = "none" THEN base ELSE WithFault(base, f.rel, f.fault)

\* the arguments tree() is called with: the root, a path that does not
\* exist, and a path below the root (an entry of the root, whatever it is)
RootArgs(base) ==
    {<<base.name>>, <<base.name, "nowhere">>} \cup
    {<<base.name, base.items[i].name>> : i \in 1..Len(base.items)}

(***************************************************************************)
(* tree(): the symbol table.                                               *)
(***************************************************************************)
AsciiSymbols ==
    [vertical |-> "|   ", branch |-> "|-- ", corner |-> "\\-- ", space |-> "    "]

UnicodeSymbols ==
    [vertical |-> "{2502}   ", branch |-> "{251C}{2500}{2500} ",
     corner |-> "{2514}{2500}{2500} ", space |-> "    "]

symbols == IF useAscii THEN AsciiSymbols ELSE UnicodeSymbols

(***************************************************************************)
(* a.localeCompare(b, 'en').  The collation is a library table; here it is *)
(* the table restricted to the names the hierarchies use, as a sequence    *)
(* of classes in ascending order.  Names in one class compare as equal:    *)
(* canonically equivalent strings do (ECMA-402, Intl.Collator compare).    *)
(* Letters compare case-insensitively first, "." sorts before letters,     *)
(* and a string sorts after its proper prefix.                             *)
(***************************************************************************)
EnCollation ==
    << {"A"}, {"a.txt"}, {"alpha"}, {"B"}, {"b.txt"}, {"beta"},
       {"caf{00E9}", "caf{0065,0301}"}, {"components"}, {"f.txt"},
       {"Footer.js"}, {"gamma"}, {"Header.js"}, {"index.js"}, {"inner"},
       {"one.txt"}, {"out.txt"}, {"package.json"}, {"public"}, {"README.md"}, {"src"},
       {"sub"}, {"three.txt"}, {"two.txt"}, {"utils"} >>

CollationRank(name) == CHOOSE i \in 1..Len(EnCollation) : name \in EnCollation[i]

localeCompare(a, b) ==
    IF CollationRank(a) < CollationRank(b) THEN -1
    ELSE IF CollationRank(a) > CollationRank(b) THEN 1
    ELSE 0

(***************************************************************************)
(* buildTree(): filter and sort.                                           *)
(***************************************************************************)
\* the filter callback throws: it stats the item only when files are hidden
filterThrows(currentPath, items) ==
    ~showFiles /\ \E i \in 1..Len(items) : statThrows(join(currentPath, items[i]))

\* the filter callback's verdict on one item
filterKeeps(currentPath, item) ==
    IF ~showFiles THEN isDirectory(join(currentPath, item)) ELSE TRUE

\* items.filter(...)
filtered(currentPath, items) ==
    SelectSeq(items, LAMBDA item : filterKeeps(currentPath, item))

\* faulty variant of the comparator: directories are not put first
compareNamesOnly(currentPath, a, b) == localeCompare(a, b)

\* the sort comparator
compare(currentPath, a, b) ==
    LET aIsDir == isDirectory(join(currentPath, a))
        bIsDir == isDirectory(join(currentPath, b))
    IN IF aIsDir /\ ~bIsDir THEN -1
       ELSE IF ~aIsDir /\ bIsDir THEN 1
       ELSE localeCompare(a, b)

\* the comparator throws: it stats both operands, and sorting two or more
\* items puts every item through the comparator at least once
sortThrows(currentPath, items) ==
    Len(items) >= 2 /\ \E i \in 1..Len(items) : statThrows(join(currentPath, items[i]))

RECURSIVE insertSorted(_, _, _)
\* `item` inserted into the sorted `s` after every element not greater than it
insertSorted(currentPath, s, item) ==
    IF s = <<>> THEN <<item>>
    ELSE IF compare(currentPath, s[Len(s)], item) <= 0 THEN Append(s, item)
    ELSE Append(insertSorted(currentPath, SubSeq(s, 1, Len(s) - 1), item), s[Len(s)])

RECURSIVE sorted(_, _)
\* Array.prototype.sort with the comparator: a stable sort
sorted(currentPath, items) ==
    IF items = <<>> THEN <<>>
    ELSE insertSorted(currentPath,
                      sorted(currentPath, SubSeq(items, 1, Len(items) - 1)),
                      items[Len(items)])

(***************************************************************************)
(* buildTree(): the pieces of the forEach body.                            *)
(***************************************************************************)
\* faulty variant of the depth check: one level too late
depthExceededLate(depth) == maxDepth # -1 /\ depth > maxDepth + 1

\* the depth check at the head of buildTree
depthExceeded(depth) == maxDepth # -1 /\ depth > maxDepth

\* faulty variant of the connector choice: the last item is not told apart
connectorAlwaysBranch(isLastItem) == symbols.branch

\* const connector = isLastItem ? symbols.corner : symbols.branch
connector(isLastItem) == IF isLastItem THEN symbols.corner ELSE symbols.branch

\* prefix + connector + item + (isDirectory ? '/' : '') + '\n'
currentLine(prefix, isLastItem, item, isDir) ==
    prefix \o <<connector(isLastItem), item>>
           \o (IF isDir THEN <<"/">> ELSE <<>>) \o <<"\n">>

\* const newPrefix = prefix + (isLastItem ? symbols.space : symbols.vertical)
\* faulty variant of the prefix: the vertical glyph under every ancestor
newPrefixAlwaysVertical(prefix, isLastItem) == Append(prefix, symbols.vertical)

newPrefix(prefix, isLastItem) ==
    Append(prefix, IF isLastItem THEN symbols.space ELSE symbols.vertical)

\* faulty variant of the accumulation: the recursive call's value is lost
accumulateDropped(result, childResult) == result

\* faulty variant of the accumulation: the recursive call's value goes first
accumulatePrepended(result, childResult) == childResult \o result

\* result += buildTree(...)
accumulate(result, childResult) == result \o childResult

\* a fresh call buildTree(currentPath, prefix, isLast, depth)
Call(currentPath, prefix, isLast, depth) ==
    [currentPath |-> currentPath, prefix |-> prefix, isLast |-> isLast,
     depth |-> depth, phase |-> "enter", sortedItems |-> <<>>, index |-> 0,
     result |-> <<>>]

top == stack[Len(stack)]

\* the catch block's console.error
readError(currentPath) == [message |-> "Error reading path", path |-> currentPath]

\* the innermost call returns `value`: its caller appends it to its own
\* result and moves to the next item; the outermost call returns to tree()
Return(outcome, value) ==
    LET rest == SubSeq(stack, 1, Len(stack) - 1) IN
    /\ returned' = returned \cup
            {[path |-> top.currentPath, depth |-> top.depth, prefix |-> top.prefix,
              outcome |-> outcome, sortedItems |-> top.sortedItems, result |-> value]}
    /\ IF rest = <<>>
       THEN /\ stack' = <<>>
            /\ treeStructure' = value
            /\ pc' = "output"
       ELSE /\ stack' = [rest EXCEPT ![Len(rest)].result = accumulate(@, value),
                                     ![Len(rest)].index = @ + 1]
            /\ UNCHANGED <<treeStructure, pc>>

\* the catch block: report currentPath, fall through to return ''
Catch ==
    /\ stderr' = Append(stderr, readError(top.currentPath))
    /\ Return("failed", <<>>)

(***************************************************************************)
(* tree(): validation and output.                                          *)
(***************************************************************************)
\* path.resolve(dirPath): paths of the model are absolute already
absolutePath == dirPath

\* the absolute path as a string: "/" before every component
RECURSIVE pathString(_)
pathString(p) ==
    IF p = <<>> THEN <<>> ELSE <<"/", p[1]>> \o pathString(Tail2(p))

\* absolutePath.replace(/\\/g, '/')
replaceBackslashes(text) ==
    [i \in 1..Len(text) |-> IF text[i] = "\\" THEN "/" ELSE text[i]]

\* output(text, null): console.log(text)
output(text) == stdout \o text \o <<"\n">>

(***************************************************************************)
(* The output file.  outputFile is a path of the hierarchy, or NoFile for  *)
(* null.  The file's directory entry lives in fs and its content in        *)
(* outText; the two together are the state of the disk.                    *)
(***************************************************************************)
NoFile == <<>>

\* the name of the output file, and what a file left by something else holds
OutName == "out.txt"
OldText == <<"old", "\n">>

disk == [fs |-> fs, text |-> outText]

\* fs.existsSync(p) on a disk value
ExistsOn(d, p) ==
    /\ p # <<>>
    /\ p[1] = d.fs.name
    /\ NodeBelow(d.fs, Tail2(p)).kind \in {"dir", "file"}

\* fs.unlinkSync(p)
unlinkSync(d, p) == [fs |-> WithoutEntry(d.fs, Tail2(p)), text |-> <<>>]

\* fs.appendFileSync(p, data): creates the file when it does not exist
appendFileSync(d, p, data) ==
    IF ExistsOn(d, p) THEN [d EXCEPT !.text = @ \o data]
    ELSE [fs |-> WithEntry(d.fs, Tail2(dirname(p)), File(basename(p))), text |-> data]

removeSkipped(d) == d

\* if (outputFile) { if (fs.existsSync(outputFile)) fs.unlinkSync(outputFile) }
removeExisting(d) ==
    IF outputFile # NoFile /\ ExistsOn(d, outputFile) THEN unlinkSync(d, outputFile)
    ELSE d

\* output(text, outputFile) with an output file: the text and a newline
\* are appended to it
outputToFile(d, text) == appendFileSync(d, outputFile, text \o <<"\n">>)

Init ==
    /\ \E base \in BaseTrees :
         /\ \E f \in Faults(base), rev \in BOOLEAN :
              fs = IF rev THEN Reversed(Faulted(base, f)) ELSE Faulted(base, f)
         /\ dirPath \in RootArgs(base)
    /\ showFiles \in BOOLEAN
    /\ useAscii \in BOOLEAN
    /\ maxDepth \in -1..MaxDepthOpt
    /\ pc = "start"
    /\ stack = <<>>
    /\ treeStructure = <<>>
    /\ stdout = <<>>
    /\ stderr = <<>>
    /\ exitCode = -1
    /\ returned = {}
    /\ entry = "api"
    /\ argv = <<>>
    /\ outputFile = NoFile
    /\ outText = <<>>
    /\ run = 1
    /\ existedBefore = FALSE

\* if (!fs.existsSync(dirPath)) { console.error(...); process.exit(1) }
tree_PathNotFound ==
    /\ pc = "start"
    /\ ~existsSync(dirPath)
    /\ stderr' = Append(stderr, [message |-> "Path not found", path |-> dirPath])
    /\ exitCode' = 1
    /\ pc' = "exited"
    /\ UNCHANGED <<fs, dirPath, showFiles, useAscii, maxDepth, stack, treeStructure,
                   stdout, returned>>
    /\ UNCHANGED <<invocation, outText>>

\* if (!stats.isDirectory()) { console.error(...); process.exit(1) }
tree_NotADirectory ==
    /\ pc = "start"
    /\ existsSync(dirPath)
    /\ ~isDirectory(dirPath)
    /\ stderr' = Append(stderr, [message |-> "Specified path is not a directory",
                                 path |-> dirPath])
    /\ exitCode' = 1
    /\ pc' = "exited"
    /\ UNCHANGED <<fs, dirPath, showFiles, useAscii, maxDepth, stack, treeStructure,
                   stdout, returned>>
    /\ UNCHANGED <<invocation, outText>>

\* the header line as output() receives it
header == replaceBackslashes(pathString(absolutePath))

tree_HeaderDeferred ==
    /\ pc = "start"
    /\ existsSync(dirPath)
    /\ isDirectory(dirPath)
    /\ IF outputFile = NoFile
       THEN /\ stdout' = output(header)
            /\ UNCHANGED <<fs, outText>>
       ELSE /\ fs' = removeExisting(disk).fs
            /\ outText' = header \o <<"\n">>
            /\ UNCHANGED stdout
    /\ stack' = <<Call(absolutePath, <<>>, TRUE, 0)>>
    /\ pc' = "walk"
    /\ UNCHANGED <<dirPath, showFiles, useAscii, maxDepth, treeStructure,
                   stderr, exitCode, returned, invocation>>

\* the output file of an earlier run is removed; the header line is
\* written; then the call buildTree(absolutePath)
tree_Header ==
    /\ pc = "start"
    /\ existsSync(dirPath)
    /\ isDirectory(dirPath)
    /\ IF outputFile = NoFile
       THEN /\ stdout' = output(header)
            /\ UNCHANGED <<fs, outText>>
       ELSE /\ fs' = outputToFile(removeExisting(disk), header).fs
            /\ outText' = outputToFile(removeExisting(disk), header).text
            /\ UNCHANGED stdout
    /\ stack' = <<Call(absolutePath, <<>>, TRUE, 0)>>
    /\ pc' = "walk"
    /\ UNCHANGED <<dirPath, showFiles, useAscii, maxDepth, treeStructure,
                   stderr, exitCode, returned, invocation>>

\* if (maxDepth !== -1 && depth > maxDepth) return ''
buildTree_DepthExceeded ==
    /\ pc = "walk" /\ stack # <<>> /\ top.phase = "enter"
    /\ depthExceeded(top.depth)
    /\ Return("pruned", <<>>)
    /\ UNCHANGED <<fs, dirPath, showFiles, useAscii, maxDepth, stdout, stderr, exitCode>>
    /\ UNCHANGED <<invocation, outText>>

\* faulty variant of the failed enumeration: the error is not caught in
\* buildTree and ends the run in main's handler
buildTree_ReaddirAborts ==
    /\ pc = "walk" /\ stack # <<>> /\ top.phase = "enter"
    /\ ~depthExceeded(top.depth)
    /\ readdirThrows(top.currentPath)
    /\ stderr' = Append(stderr, [message |-> "Error", path |-> top.currentPath])
    /\ exitCode' = 1
    /\ pc' = "exited"
    /\ UNCHANGED <<fs, dirPath, showFiles, useAscii, maxDepth, stack, treeStructure,
                   stdout, returned>>
    /\ UNCHANGED <<invocation, outText>>

\* fs.readdirSync(currentPath) throws
buildTree_ReaddirThrows ==
    /\ pc = "walk" /\ stack # <<>> /\ top.phase = "enter"
    /\ ~depthExceeded(top.depth)
    /\ readdirThrows(top.currentPath)
    /\ Catch
    /\ UNCHANGED <<fs, dirPath, showFiles, useAscii, maxDepth, stdout, exitCode>>
    /\ UNCHANGED <<invocation, outText>>

\* fs.statSync throws inside the filter or the sort callback
buildTree_FilterSortThrows ==
    /\ pc = "walk" /\ stack # <<>> /\ top.phase = "enter"
    /\ ~depthExceeded(top.depth)
    /\ ~readdirThrows(top.currentPath)
    /\ LET items == readdirSync(top.currentPath) IN
         \/ filterThrows(top.currentPath, items)
         \/ sortThrows(top.currentPath, filtered(top.currentPath, items))
    /\ Catch
    /\ UNCHANGED <<fs, dirPath, showFiles, useAscii, maxDepth, stdout, exitCode>>
    /\ UNCHANGED <<invocation, outText>>

\* const sortedItems = items.filter(...).sort(...); let result = ''
buildTree_Sorted ==
    /\ pc = "walk" /\ stack # <<>> /\ top.phase = "enter"
    /\ ~depthExceeded(top.depth)
    /\ ~readdirThrows(top.currentPath)
    /\ LET items == readdirSync(top.currentPath) IN
         /\ ~filterThrows(top.currentPath, items)
         /\ ~sortThrows(top.currentPath, filtered(top.currentPath, items))
         /\ stack' = [stack EXCEPT ![Len(stack)] =
                [@ EXCEPT !.phase = "each",
                          !.sortedItems = sorted(top.currentPath,
                                                 filtered(top.currentPath, items)),
                          !.index = 1,
                          !.result = <<>>]]
    /\ UNCHANGED <<fs, dirPath, showFiles, useAscii, maxDepth, pc, treeStructure,
                   stdout, stderr, exitCode, returned>>
    /\ UNCHANGED <<invocation, outText>>

\* forEach body: fs.statSync(itemPath) throws
buildTree_ItemStatThrows ==
    /\ pc = "walk" /\ stack # <<>> /\ top.phase = "each"
    /\ top.index <= Len(top.sortedItems)
    /\ statThrows(join(top.currentPath, top.sortedItems[top.index]))
    /\ Catch
    /\ UNCHANGED <<fs, dirPath, showFiles, useAscii, maxDepth, stdout, exitCode>>
    /\ UNCHANGED <<invocation, outText>>

\* forEach body for a file: the line
buildTree_File ==
    /\ pc = "walk" /\ stack # <<>> /\ top.phase = "each"
    /\ top.index <= Len(top.sortedItems)
    /\ LET item == top.sortedItems[top.index]
           itemPath == join(top.currentPath, item)
           isLastItem == top.index = Len(top.sortedItems)
       IN /\ ~statThrows(itemPath)
          /\ ~isDirectory(itemPath)
          /\ stack' = [stack EXCEPT ![Len(stack)] =
                [@ EXCEPT !.result = @ \o currentLine(top.prefix, isLastItem, item, FALSE),
                          !.index = @ + 1]]
    /\ UNCHANGED <<fs, dirPath, showFiles, useAscii, maxDepth, pc, treeStructure,
                   stdout, stderr, exitCode, returned>>
    /\ UNCHANGED <<invocation, outText>>

\* forEach body for a directory: the line, then the recursive call
buildTree_Directory ==
    /\ pc = "walk" /\ stack # <<>> /\ top.phase = "each"
    /\ top.index <= Len(top.sortedItems)
    /\ LET item == top.sortedItems[top.index]
           itemPath == join(top.currentPath, item)
           isLastItem == top.index = Len(top.sortedItems)
       IN /\ ~statThrows(itemPath)
          /\ isDirectory(itemPath)
          /\ stack' = Append(
                [stack EXCEPT ![Len(stack)] =
                    [@ EXCEPT !.result = @ \o currentLine(top.prefix, isLastItem, item, TRUE)]],
                Call(itemPath, newPrefix(top.prefix, isLastItem), isLastItem, top.depth + 1))
    /\ UNCHANGED <<fs, dirPath, showFiles, useAscii, maxDepth, pc, treeStructure,
                   stdout, stderr, exitCode, returned>>
    /\ UNCHANGED <<invocation, outText>>

\* return result
buildTree_Return ==
    /\ pc = "walk" /\ stack # <<>> /\ top.phase = "each"
    /\ top.index > Len(top.sortedItems)
    /\ Return("listed", top.result)
    /\ UNCHANGED <<fs, dirPath, showFiles, useAscii, maxDepth, stdout, stderr, exitCode>>
    /\ UNCHANGED <<invocation, outText>>

\* output(treeStructure, outputFile); tree() returns
tree_Body ==
    /\ pc = "output"
    /\ IF outputFile = NoFile
       THEN /\ stdout' = output(treeStructure)
            /\ UNCHANGED <<fs, outText>>
       ELSE /\ fs' = outputToFile(disk, treeStructure).fs
            /\ outText' = outputToFile(disk, treeStructure).text
            /\ UNCHANGED stdout
    /\ exitCode' = 0
    /\ pc' = "done"
    /\ UNCHANGED <<dirPath, showFiles, useAscii, maxDepth, stack, treeStructure,
                   stderr, returned, invocation>>

Next ==
    \/ tree_PathNotFound
    \/ tree_NotADirectory
    \/ tree_Header
    \/ buildTree_DepthExceeded
    \/ buildTree_ReaddirThrows
    \/ buildTree_FilterSortThrows
    \/ buildTree_Sorted
    \/ buildTree_ItemStatThrows
    \/ buildTree_File
    \/ buildTree_Directory
    \/ buildTree_Return
    \/ tree_Body

Spec == Init /\ [][Next]_vars

(***************************************************************************)
(* The command line.  An argument is a record: kind "option" is an         *)
(* argument that begins with "-", kind "word" any other; a word that       *)
(* names a path carries it.                                                *)
(***************************************************************************)
Opt(text) == [kind |-> "option", text |-> text, path |-> <<>>]
Word(p) == [kind |-> "word", text |-> "", path |-> p]
Literal(text) == [kind |-> "word", text |-> text, path |-> <<>>]

\* arg.toLowerCase(), on the arguments the command lines use
toLowerCase(text) ==
    IF text = "-H" THEN "-h"
    ELSE IF text = "--HELP" THEN "--help"
    ELSE text

\* const helpArgs = ['/?', '/h', '-?', '-h', '--help']
helpArgs == {"/?", "/h", "-?", "-h", "--help"}

\* process.argv.length <= 2 || process.argv.slice(2).some(arg => helpArgs.includes(...))
helpRequested ==
    \/ argv = <<>>
    \/ \E i \in 1..Len(argv) : toLowerCase(argv[i].text) \in helpArgs

\* the options object handed to parseArgs: the name each flag is stored under
booleanOptions ==
    [o \in {"-f", "--files", "-a", "--ascii", "-h", "--help"} |->
        CASE o = "-f" -> "f" [] o = "--files" -> "files"
          [] o = "-a" -> "a" [] o = "--ascii" -> "ascii"
          [] o = "-h" -> "h" [] o = "--help" -> "help"]

stringOptions == [o \in {"-o", "--output"} |-> IF o = "-o" THEN "o" ELSE "output"]

RECURSIVE parseFrom(_, _, _)
\* util.parseArgs, strict: an option that was not declared, or a string
\* option without a value, throws
parseFrom(args, i, acc) ==
    IF i > Len(args) THEN acc
    ELSE LET arg == args[i] IN
         IF arg.kind = "word"
         THEN parseFrom(args, i + 1, [acc EXCEPT !.positionals = Append(@, arg.path)])
         ELSE IF arg.text \in DOMAIN booleanOptions
         THEN parseFrom(args, i + 1,
                        [acc EXCEPT !.values = @ \cup {booleanOptions[arg.text]}])
         ELSE IF arg.text \in DOMAIN stringOptions
         THEN IF i + 1 > Len(args) \/ args[i + 1].kind = "option"
              THEN [acc EXCEPT !.throws = TRUE]
              ELSE parseFrom(args, i + 2, [acc EXCEPT !.file = args[i + 1].path])
         ELSE [acc EXCEPT !.throws = TRUE]

parseArgs(args) ==
    parseFrom(args, 1, [values |-> {}, file |-> NoFile, positionals |-> <<>>,
                        throws |-> FALSE])

\* process.cwd(): the program is started in the root of the hierarchy
cwd == <<fs.name>>

\* the usage text showHelp() prints
usage == <<"Usage: node tree.js [directory] [options]", "\n">>

\* the command lines the program is started with on one hierarchy
CommandLines(base) ==
    LET root == Word(<<base.name>>)
        out == Word(<<base.name, OutName>>)
    IN { <<>>,
         <<root>>,
         <<Opt("-f")>>,
         <<root, Opt("-f"), Opt("-a")>>,
         <<Opt("--files"), Opt("--ascii"), root>>,
         <<root, Opt("-f"), Opt("-o"), out>>,
         <<root, Opt("--output"), out>>,
         <<Word(<<base.name, "nowhere">>), Opt("-o"), out>>,
         <<root, Opt("-o")>>,
         <<root, Opt("-x")>>,
         <<root, Opt("-f"), Opt("--depth")>>,
         <<Opt("--depth"), root, Opt("-f")>>,
         <<root, Opt("-x"), Opt("-h")>>,
         <<Opt("--HELP")>>,
         <<root, Opt("-h")>>,
         <<Literal("/?")>> }

\* the options the command lines use that parseArgs was not told about
UnknownOptions == {"-x", "--depth"}

(***************************************************************************)
(* main(), and the program run again on the filesystem it left behind.     *)
(***************************************************************************)
\* showHelp(); return
main_ShowHelp ==
    /\ pc = "main"
    /\ helpRequested
    /\ stdout' = stdout \o usage
    /\ exitCode' = 0
    /\ pc' = "helped"
    /\ UNCHANGED <<fs, dirPath, showFiles, useAscii, maxDepth, stack, treeStructure,
                   stderr, returned, invocation, outText>>

\* catch (error) { console.error(`Error: ${error.message}`); process.exit(1) }
main_ParseError ==
    /\ pc = "main"
    /\ ~helpRequested
    /\ parseArgs(argv).throws
    /\ stderr' = Append(stderr, [message |-> "Error", path |-> <<>>])
    /\ exitCode' = 1
    /\ pc' = "exited"
    /\ UNCHANGED <<fs, dirPath, showFiles, useAscii, maxDepth, stack, treeStructure,
                   stdout, returned, invocation, outText>>

\* const { dirPath, options } = parseCommandLineArgsWithUtil(); tree(dirPath, options)
main_Tree ==
    /\ pc = "main"
    /\ ~helpRequested
    /\ ~parseArgs(argv).throws
    /\ LET parsed == parseArgs(argv) IN
         /\ dirPath' = IF parsed.positionals = <<>> THEN cwd ELSE parsed.positionals[1]
         /\ showFiles' = (parsed.values \cap {"f", "files"} # {})
         /\ useAscii' = (parsed.values \cap {"a", "ascii"} # {})
         /\ outputFile' = parsed.file
         /\ existedBefore' = (parsed.file # NoFile /\ ExistsOn(disk, parsed.file))
    /\ maxDepth' = -1
    /\ pc' = "start"
    /\ UNCHANGED <<fs, stack, treeStructure, stdout, stderr, exitCode, returned,
                   entry, argv, run, outText>>

\* the finished program is started once more, with the same arguments, on
\* the filesystem as the run before left it
Again ==
    /\ pc = "done"
    /\ run < MaxRuns
    /\ run' = run + 1
    /\ stack' = <<>>
    /\ treeStructure' = <<>>
    /\ stdout' = <<>>
    /\ stderr' = <<>>
    /\ exitCode' = -1
    /\ returned' = {}
    /\ IF entry = "cli"
       THEN /\ pc' = "main"
            /\ dirPath' = <<>>
            /\ showFiles' = FALSE
            /\ useAscii' = FALSE
            /\ outputFile' = NoFile
            /\ existedBefore' = FALSE
       ELSE /\ pc' = "start"
            /\ existedBefore' = (outputFile # NoFile /\ ExistsOn(disk, outputFile))
            /\ UNCHANGED <<dirPath, showFiles, useAscii, outputFile>>
    /\ UNCHANGED <<fs, maxDepth, entry, argv, outText>>

\* the hierarchies the program is run on with an output file
ProgramTrees == {Three, SortDir}

\* where the output file is put: in the root of the hierarchy, or in one
\* of the root's entries
OutputFiles(base) ==
    {<<base.name, OutName>>} \cup
    {<<base.name, base.items[i].name, OutName>> : i \in 1..Len(base.items)}

\* the disk before the first run: the hierarchy, with or without a file
\* that something else left at the output path
DiskBefore(hierarchy, file, exists) ==
    IF exists
    THEN [fs |-> WithEntry(hierarchy, Tail2(dirname(file)), File(OutName)),
          text |-> OldText]
    ELSE [fs |-> hierarchy, text |-> <<>>]

InitProgram ==
    /\ \E base \in ProgramTrees, exists \in BOOLEAN :
         \E f \in Faults(base) :
           \/ /\ entry = "api"
              /\ argv = <<>>
              /\ dirPath \in RootArgs(base)
              /\ showFiles \in BOOLEAN
              /\ useAscii \in BOOLEAN
              /\ maxDepth \in -1..MaxDepthOpt
              /\ outputFile \in
                    {file \in OutputFiles(base) :
                        NodeBelow(Faulted(base, f), Tail2(dirname(file))).kind = "dir"}
              /\ fs = DiskBefore(Faulted(base, f), outputFile, exists).fs
              /\ outText = DiskBefore(Faulted(base, f), outputFile, exists).text
              /\ existedBefore = exists
              /\ pc = "start"
           \/ /\ entry = "cli"
              /\ argv \in CommandLines(base)
              /\ dirPath = <<>>
              /\ showFiles = FALSE
              /\ useAscii = FALSE
              /\ maxDepth = -1
              /\ outputFile = NoFile
              /\ NodeBelow(Faulted(base, f), <<>>).kind = "dir"
              /\ fs = DiskBefore(Faulted(base, f), <<base.name, OutName>>, exists).fs
              /\ outText = DiskBefore(Faulted(base, f), <<base.name, OutName>>, exists).text
              /\ existedBefore = FALSE
              /\ pc = "main"
    /\ stack = <<>>
    /\ treeStructure = <<>>
    /\ stdout = <<>>
    /\ stderr = <<>>
    /\ exitCode = -1
    /\ returned = {}
    /\ run = 1

NextProgram ==
    \/ main_ShowHelp
    \/ main_ParseError
    \/ main_Tree
    \/ Next
    \/ Again

SpecProgram == InitProgram /\ [][NextProgram]_vars

(***************************************************************************)
(* Reading the output back.                                                *)
(***************************************************************************)
RECURSIVE SplitFrom(_, _, _)
SplitFrom(text, i, cur) ==
    IF i > Len(text) THEN (IF cur = <<>> THEN <<>> ELSE <<cur>>)
    ELSE IF text[i] = "\n" THEN <<cur>> \o SplitFrom(text, i + 1, <<>>)
    ELSE SplitFrom(text, i + 1, Append(cur, text[i]))

\* the lines of a text, without their newlines
Lines(text) == SplitFrom(text, 1, <<>>)

\* the number of newline-terminated lines of a text
NumLines(text) == Cardinality({i \in 1..Len(text) : text[i] = "\n"})

Connectors ==
    {AsciiSymbols.branch, AsciiSymbols.corner, UnicodeSymbols.branch, UnicodeSymbols.corner}

\* a line that lists an entry: it holds a connector
IsEntryLine(line) == \E i \in 1..Len(line) : line[i] \in Connectors

\* the number of prefix segments before the connector of an entry line
LineDepth(line) == (CHOOSE i \in 1..Len(line) : line[i] \in Connectors) - 1

LineConnector(line) == line[LineDepth(line) + 1]

LineName(line) ==
    IF Len(line) >= LineDepth(line) + 2 THEN line[LineDepth(line) + 2] ELSE "?"

LineIsDir(line) == line[Len(line)] = "/"

EntryLines(text) == SelectSeq(Lines(text), IsEntryLine)

RECURSIVE PathsFrom(_, _, _)
\* the entry each line lists, as a path below the root: a line with d
\* prefix segments lists a child of the latest entry listed with d - 1
PathsFrom(lines, i, anc) ==
    IF i > Len(lines) THEN <<>>
    ELSE LET d == LineDepth(lines[i])
             up == IF d <= Len(anc) THEN SubSeq(anc, 1, d)
                   ELSE anc \o [j \in 1..(d - Len(anc)) |-> "?"]
             here == Append(up, LineName(lines[i]))
         IN <<here>> \o PathsFrom(lines, i + 1, here)

\* the entries the output lists, in output order, as paths below the root
ShownSeq == PathsFrom(EntryLines(stdout), 1, <<>>)

Shown == {ShownSeq[i] : i \in 1..Len(ShownSeq)}

\* the index of the line that lists the entry `rel`
LineOf(rel) == CHOOSE i \in 1..Len(ShownSeq) : ShownSeq[i] = rel

\* an entry of directory p that can be stat-ed and that the filter keeps
Survives(p, item) ==
    /\ ~statThrows(join(p, item))
    /\ showFiles \/ isDirectory(join(p, item))

Range(s) == {s[i] : i \in 1..Len(s)}

RECURSIVE Listing(_, _, _)
\* the entries, as paths below the root, that lie within the depth limit:
\* `rel` is the directory's path below the root, d the depth of its entries
Listing(p, rel, d) ==
    IF depthExceeded(d) \/ readdirThrows(p) THEN {}
    ELSE LET items == Range(readdirSync(p)) IN
         {Append(rel, it) : it \in {x \in items : Survives(p, x)}} \cup
         UNION {Listing(join(p, it), Append(rel, it), d + 1) :
                it \in {x \in items : ~statThrows(join(p, x)) /\ isDirectory(join(p, x))}}

Front(s) == SubSeq(s, 1, Len(s) - 1)

\* the finished call on directory p
Finished(p) == CHOOSE r \in returned : r.path = p

HasFinished(p) == \E r \in returned : r.path = p

\* the path below the root of an absolute path under the root
Below(p) == SubSeq(p, Len(absolutePath) + 1, Len(p))

(***************************************************************************)
(* Properties.                                                             *)
(***************************************************************************)

\* a finished call whose failure was a stat failure on an entry, not a
\* failed enumeration
StatFailed(r) == r.outcome = "failed" /\ ~readdirThrows(r.path)

\* the directories below the root, as paths below it, that the walk comes
\* to enumerate (they are listed entries within the depth limit) and whose
\* enumeration fails
UnreadableChildren ==
    {q \in Listing(absolutePath, <<>>, 0) :
        /\ isDirectory(absolutePath \o q)
        /\ readdirThrows(absolutePath \o q)
        /\ ~depthExceeded(Len(q))}

\* C1: when stat fails on one entry E of a directory D, only E is dropped:
\* every other entry of D that the filter keeps is still rendered (and so
\* are D's ancestors and their other entries).
C1_StatFailureDropsOnlyThatEntry ==
    pc = "done" =>
        \A r \in returned :
            StatFailed(r) =>
                \A item \in Range(readdirSync(r.path)) :
                    Survives(r.path, item) => Append(Below(r.path), item) \in Shown

\* C2: when the enumeration of a child directory C fails, the run does not
\* exit with status 1 and reports C at most once; when the run is over,
\* exactly one diagnostic names C, C's own line is rendered with nothing
\* beneath it, and the siblings of C and everything in their subtrees
\* within the depth limit are rendered.
C2_UnreadableChildIsSkipped ==
    \A c \in UnreadableChildren :
        LET C == absolutePath \o c
            parent == Front(C)
            reports == Cardinality({i \in 1..Len(stderr) : stderr[i].path = C})
        IN
        /\ exitCode # 1
        /\ pc # "exited"
        /\ reports <= 1
        /\ pc = "done" =>
            /\ reports = 1
            /\ HasFinished(C) /\ Finished(C).result = <<>>
            /\ c \in Shown
            /\ ~ \E q \in Shown : Len(q) > Len(c) /\ SubSeq(q, 1, Len(c)) = c
            /\ \A item \in Range(readdirSync(parent)) :
                    Survives(parent, item) =>
                        /\ Append(Front(c), item) \in Shown
                        /\ isDirectory(join(parent, item)) =>
                              Listing(join(parent, item), Append(Front(c), item), Len(c))
                                  \subseteq Shown

\* C2 happens: one unreadable child among three, and a sibling's subtree
\* has lines of its own
C2_Witness ==
    /\ pc = "done"
    /\ \E c \in UnreadableChildren :
         /\ Len(readdirSync(Front(absolutePath \o c))) = 3
         /\ \E q \in Shown :
              /\ Len(q) = Len(c) + 1
              /\ Front(Front(q)) = Front(c)
              /\ Front(q) # c

\* the run of the documented example: my-app rendered with files shown,
\* Unicode glyphs and no depth limit, in either enumeration order
MyAppRun ==
    /\ fs \in {MyApp, Reversed(MyApp)}
    /\ dirPath = <<"my-app">>
    /\ showFiles /\ ~useAscii /\ maxDepth = -1
    /\ pc = "done"

NonEmptyLines(text) == SelectSeq(Lines(text), LAMBDA l : l # <<>>)

\* the sample as documented, line by line
DocumentedSample ==
    LET v == "{2502}   "
        b == "{251C}{2500}{2500} "
        c == "{2514}{2500}{2500} "
    IN << <<"my-app", "/">>,
          <<b, "src", "/">>,
          <<v, b, "components", "/">>,
          <<v, v, b, "Header.js">>,
          <<v, v, c, "Footer.js">>,
          <<v, b, "utils", "/">>,
          <<v, c, "index.js">>,
          <<b, "public", "/">>,
          <<b, "package.json">>,
          <<c, "README.md">> >>

\* what is written for the example: the resolved path as header, entries
\* in sorted order, and the empty line console.log adds after the body
SortedSample ==
    LET v == "{2502}   "
        b == "{251C}{2500}{2500} "
        c == "{2514}{2500}{2500} "
    IN << <<"/", "my-app">>,
          <<b, "public", "/">>,
          <<b, "src", "/">>,
          <<v, b, "components", "/">>,
          <<v, v, b, "Footer.js">>,
          <<v, v, c, "Header.js">>,
          <<v, b, "utils", "/">>,
          <<v, c, "index.js">>,
          <<b, "package.json">>,
          <<c, "README.md">>,
          <<>> >>

C4_ExactlyDepthsUpToLimitShown ==
    (pc = "done" /\ maxDepth >= 0) =>
        /\ Listing(absolutePath, <<>>, 0) \subseteq Shown
        /\ \A q \in Shown : Len(q) - 1 <= maxDepth

\* no stat failure happened during the walk
NoStatFailure == \A r \in returned : ~StatFailed(r)

\* the statement of C4 on the runs in which no stat fails
DepthLimit_WhenNoStatFails ==
    (pc = "done" /\ maxDepth >= 0 /\ NoStatFailure) =>
        /\ Listing(absolutePath, <<>>, 0) \subseteq Shown
        /\ \A q \in Shown : Len(q) - 1 <= maxDepth

CanonicalOrder(p) ==
    LET S == {x \in Range(readdirSync(p)) : Survives(p, x)}
        n == Cardinality(S)
    IN CHOOSE s \in [1..n -> S] :
            \A i, j \in 1..n : i < j => s[i] # s[j] /\ compare(p, s[i], s[j]) <= 0

\* C6: in every directory the displayed entries are directories first and
\* ascending by name within a kind, and their order is determined by the
\* set of entries and their kinds, not by the enumeration order.
C6_OrderDependsOnlyOnEntries ==
    \A r \in returned :
        r.outcome = "listed" =>
            /\ \A i, j \in 1..Len(r.sortedItems) :
                 i < j =>
                    LET iDir == isDirectory(join(r.path, r.sortedItems[i]))
                        jDir == isDirectory(join(r.path, r.sortedItems[j]))
                    IN /\ jDir => iDir
                       /\ iDir = jDir =>
                            localeCompare(r.sortedItems[i], r.sortedItems[j]) <= 0
            /\ r.sortedItems = CanonicalOrder(r.path)

\* the statement of C6 without its last part: directories first, and
\* names not descending within a kind
Order_DirectoriesFirstAscending ==
    \A r \in returned :
        r.outcome = "listed" =>
            \A i, j \in 1..Len(r.sortedItems) :
                 i < j =>
                    LET iDir == isDirectory(join(r.path, r.sortedItems[i]))
                        jDir == isDirectory(join(r.path, r.sortedItems[j]))
                    IN /\ jDir => iDir
                       /\ iDir = jDir =>
                            localeCompare(r.sortedItems[i], r.sortedItems[j]) <= 0

\* the lines of a finished call's value that list the directory's own entries
OwnLines(r) ==
    SelectSeq(EntryLines(r.result), LAMBDA l : LineDepth(l) = Len(r.prefix))

\* C7: in every directory that was listed, at every depth, there is one
\* line per entry of the sorted, filtered list, in that order; the last
\* has the corner connector and every other the branch connector.
C7_LastEntryHasCorner ==
    pc = "done" =>
        \A r \in returned :
            r.outcome = "listed" =>
                LET own == OwnLines(r)
                    n == Len(filtered(r.path, readdirSync(r.path)))
                    corner == IF useAscii THEN "\\-- " ELSE "{2514}{2500}{2500} "
                    branch == IF useAscii THEN "|-- " ELSE "{251C}{2500}{2500} "
                IN /\ Len(own) = n
                   /\ \A i \in 1..Len(own) :
                        /\ LineName(own[i]) = r.sortedItems[i]
                        /\ LineConnector(own[i]) = IF i = n THEN corner ELSE branch

\* C7 happens: below the root a directory with several entries and a
\* directory with exactly one entry have been listed
C7_Witness ==
    /\ pc = "done"
    /\ \E r \in returned :
         r.outcome = "listed" /\ r.depth >= 1 /\ Len(r.sortedItems) >= 2
    /\ \E r \in returned :
         r.outcome = "listed" /\ r.depth >= 1 /\ Len(r.sortedItems) = 1

\* C8 as stated: with showFiles = false no file is listed and every
\* directory reachable within the depth limit is; with showFiles = true
\* every enumerated entry (that can be stat-ed) is listed.
C8_FilterKeepsExactlyTheRightEntries ==
    pc = "done" =>
        /\ ~showFiles =>
             \A i \in 1..Len(EntryLines(stdout)) : LineIsDir(EntryLines(stdout)[i])
        /\ \A r \in returned :
             (r.outcome # "pruned" /\ ~readdirThrows(r.path)) =>
                \A item \in Range(readdirSync(r.path)) :
                    Survives(r.path, item) => Append(Below(r.path), item) \in Shown

\* the statement of C8 on the runs in which no stat fails
Filter_WhenNoStatFails ==
    (pc = "done" /\ NoStatFailure) =>
        /\ ~showFiles =>
             \A i \in 1..Len(EntryLines(stdout)) : LineIsDir(EntryLines(stdout)[i])
        /\ \A r \in returned :
             (r.outcome # "pruned" /\ ~readdirThrows(r.path)) =>
                \A item \in Range(readdirSync(r.path)) :
                    Survives(r.path, item) => Append(Below(r.path), item) \in Shown

\* the number of lines the call on the directory entry `item` of p returned
ChildLines(p, item) ==
    IF ~statThrows(join(p, item)) /\ isDirectory(join(p, item))
       /\ HasFinished(join(p, item))
    THEN NumLines(Finished(join(p, item)).result)
    ELSE 0

RECURSIVE SumChildLines(_, _)
SumChildLines(p, items) ==
    IF items = <<>> THEN 0
    ELSE ChildLines(p, items[1]) + SumChildLines(p, Tail2(items))

\* C9: for every directory whose rendering did not fail, the number of
\* lines returned for it is the number of its entries the filter keeps
\* plus the numbers of lines returned for its directory entries (none
\* for one pruned by the depth limit).
C9_LineCountIsRecursive ==
    pc = "done" =>
        \A r \in returned :
            r.outcome = "listed" =>
                LET kept == filtered(r.path, readdirSync(r.path)) IN
                NumLines(r.result) = Len(kept) + SumChildLines(r.path, kept)

\* C9 happens: a listed directory has a directory entry that returned
\* lines of its own and another that was pruned or returned none
C9_Witness ==
    /\ pc = "done"
    /\ \E r \in returned :
         /\ r.outcome = "listed"
         /\ \E i \in 1..Len(r.sortedItems) : ChildLines(r.path, r.sortedItems[i]) >= 2
    /\ \E r \in returned : r.outcome = "pruned"

RECURSIVE PreOrder(_, _)
RECURSIVE PreOrderItems(_, _, _)
\* the listed entries below directory p in depth-first pre-order, each
\* directory's entries in the order it displayed them
PreOrder(p, rel) ==
    IF HasFinished(p) /\ Finished(p).outcome = "listed"
    THEN PreOrderItems(p, rel, Finished(p).sortedItems)
    ELSE <<>>

PreOrderItems(p, rel, items) ==
    IF items = <<>> THEN <<>>
    ELSE <<Append(rel, items[1])>>
         \o (IF isDirectory(join(p, items[1]))
             THEN PreOrder(join(p, items[1]), Append(rel, items[1]))
             ELSE <<>>)
         \o PreOrderItems(p, rel, Tail2(items))

\* C10: the rendered lines are in depth-first pre-order, one line per
\* listed entry: a directory's line, then the lines of its descendants,
\* then the line of its next sibling.
C10_OutputIsPreOrder ==
    pc = "done" =>
        /\ ShownSeq = PreOrder(absolutePath, <<>>)
        /\ Len(ShownSeq) = NumLines(treeStructure)

\* C10 happens: a directory's line is followed by a descendant's line and
\* later by a sibling's line
C10_Witness ==
    /\ pc = "done"
    /\ \E i, k \in 1..Len(ShownSeq) :
         /\ i + 1 < k
         /\ Front(ShownSeq[i + 1]) = ShownSeq[i]
         /\ Front(ShownSeq[k]) = Front(ShownSeq[i])

(***************************************************************************)
(* The output file after a run.                                            *)
(***************************************************************************)
\* a run that was given an output file has returned from tree()
FileRunDone == pc = "done" /\ outputFile # NoFile

\* C11, as stated: after a successful run the output file holds only the
\* run's header line followed by the run's tree lines, each ending in a
\* single newline, whatever the file held before (the output of the run
\* before, or anything else).
C11_FileHoldsHeaderAndTreeLines ==
    FileRunDone => Lines(outText) = <<header>> \o Lines(treeStructure)

\* C11, amended: a file already at the output path is removed before the
\* first write, so during the walk the file holds the run's header line
\* only, and after a successful run it holds the run's header line, the
\* run's tree lines and one empty line after them, and nothing of what it
\* held before.
C11_FileHoldsOnlyThisRun ==
    /\ (pc \in {"walk", "output"} /\ outputFile # NoFile) =>
            outText = header \o <<"\n">>
    /\ FileRunDone =>
            /\ outText = header \o <<"\n">> \o treeStructure \o <<"\n">>
            /\ Lines(outText) = <<header>> \o Lines(treeStructure) \o << <<>> >>

\* the second run in a row has finished, over the file the first run left,
\* and rendered entries
C11_Witness ==
    /\ FileRunDone
    /\ run = 2
    /\ existedBefore
    /\ NumLines(treeStructure) >= 2
    /\ outText = header \o <<"\n">> \o treeStructure \o <<"\n">>

(***************************************************************************)
(* The command line with an option that is not recognized.                 *)
(***************************************************************************)
HasUnknownOption ==
    \E i \in 1..Len(argv) : argv[i].kind = "option" /\ argv[i].text \in UnknownOptions

UsageShown == \E i \in 1..Len(stdout) : stdout[i] = usage[1]

\* main() is past its argument handling
ArgumentsHandled == entry = "cli" /\ pc # "main"

\* C12, as stated: when the command line holds an unrecognized option, the
\* invocation fails before any directory is enumerated: the usage text is
\* shown and the process exits with a nonzero status.
C12_UnknownOptionShowsUsageAndFails ==
    (ArgumentsHandled /\ HasUnknownOption) =>
        /\ returned = {} /\ stack = <<>>
        /\ UsageShown
        /\ pc = "exited" /\ exitCode >= 1

\* what the program does on an unrecognized option: nothing is enumerated;
\* with a help argument on the same command line the usage text is shown
\* and the status is 0; without one, an error line is written, no usage
\* text, and the status is 1
UnknownOption_WhatHappens ==
    (ArgumentsHandled /\ HasUnknownOption) =>
        /\ returned = {} /\ stack = <<>>
        /\ IF helpRequested
           THEN UsageShown /\ pc = "helped" /\ exitCode = 0
           ELSE ~UsageShown /\ stderr # <<>> /\ pc = "exited" /\ exitCode = 1

(***************************************************************************)
(* Prefix segments and the glyph set.                                      *)
(***************************************************************************)
\* the glyphs of the two tables, as the source writes them
AsciiGlyphs == {"|   ", "|-- ", "\\-- ", "    "}
UnicodeGlyphs == {"{2502}   ", "{251C}{2500}{2500} ", "{2514}{2500}{2500} ", "    "}

\* the entry `item` is the last line of the listing of directory p
IsLastShown(p, item) ==
    LET s == sorted(p, filtered(p, readdirSync(p)))
    IN s # <<>> /\ s[Len(s)] = item

\* the segment the glyph set in use draws under an ancestor
SegmentUnder(isLast) ==
    IF isLast THEN "    "
    ELSE IF useAscii THEN "|   " ELSE "{2502}   "

\* C13: the line of an entry at depth d (the root's children at depth 0)
\* starts with exactly d prefix segments followed by one connector and
\* the entry's name; the i-th segment is the space glyph if the entry's
\* ancestor at depth i was the last of its siblings and the vertical glyph
\* otherwise; every glyph of the output comes from the set useAscii
\* selects, so the two sets never mix in one output.
C13_PrefixFollowsAncestors ==
    pc = "done" =>
        /\ \A k \in 1..Len(ShownSeq) :
             LET line == EntryLines(stdout)[k]
                 q == ShownSeq[k]
                 d == Len(q) - 1
             IN /\ existsSync(absolutePath \o q)
                /\ Len(line) >= d + 2
                /\ \A i \in 1..d :
                      line[i] = SegmentUnder(IsLastShown(absolutePath \o SubSeq(q, 1, i - 1),
                                                         q[i]))
                /\ line[d + 1] \in (IF useAscii THEN {"|-- ", "\\-- "}
                                    ELSE {"{251C}{2500}{2500} ", "{2514}{2500}{2500} "})
                /\ line[d + 2] = q[d + 1]
        /\ \A j \in 1..Len(stdout) :
             stdout[j] \in AsciiGlyphs \cup UnicodeGlyphs =>
                stdout[j] \in (IF useAscii THEN AsciiGlyphs ELSE UnicodeGlyphs)

\* C13 happens: an entry at depth 2 has been rendered whose ancestor at
\* depth 0 was not the last of its siblings and whose ancestor at depth 1
\* was
C13_Witness ==
    /\ pc = "done"
    /\ \E k \in 1..Len(ShownSeq) :
         LET line == EntryLines(stdout)[k]
             q == ShownSeq[k]
         IN /\ Len(q) = 3
            /\ ~IsLastShown(absolutePath, q[1])
            /\ IsLastShown(absolutePath \o <<q[1]>>, q[2])
            /\ line[1] = SegmentUnder(FALSE)
            /\ line[2] = SegmentUnder(TRUE)

(***************************************************************************)
(* The output file inside the rendered directory.                          *)
(***************************************************************************)
\* the output file lies inside the directory being rendered
OutputInsideRoot ==
    /\ outputFile # NoFile
    /\ Len(outputFile) > Len(absolutePath)
    /\ SubSeq(outputFile, 1, Len(absolutePath)) = absolutePath

\* the entries the output file lists, as paths below the root
ShownInFile ==
    LET seq == PathsFrom(EntryLines(outText), 1, <<>>)
    IN {seq[i] : i \in 1..Len(seq)}

\* tree() rejects the root path
InvalidRoot == ~(existsSync(dirPath) /\ isDirectory(dirPath))

\* the run ended in tree()'s validation, with an output file given
RejectedWithFile == pc = "exited" /\ outputFile # NoFile /\ InvalidRoot

\* the output file is as it was when the run began
FileUntouched ==
    /\ ExistsOn(disk, outputFile) = existedBefore
    /\ existedBefore => outText = OldText

\* the listing of directory p does not fail: it can be enumerated and
\* every entry of it can be stat-ed
ListsCleanly(p) ==
    /\ ~readdirThrows(p)
    /\ \A i \in 1..Len(readdirSync(p)) : ~statThrows(join(p, readdirSync(p)[i]))

\* the listing of the directory that holds the output file is rendered:
\* its entries are within the depth limit, and neither its listing nor
\* the listing of a directory between it and the root fails
HolderRendered ==
    LET holder == dirname(outputFile) IN
    /\ ~depthExceeded(Len(Below(holder)))
    /\ \A n \in Len(absolutePath)..Len(holder) : ListsCleanly(SubSeq(holder, 1, n))

C14_RejectedRun ==
    RejectedWithFile /\ existedBefore /\ outText = OldText
====
